---- MODULE Spec2Model ----
(***************************************************************************)
(* decompose_corpus (docs/ignore/ragno/decompose_corpus.py): the loop that *)
(* turns a list of chunk records into semantic units, a name-keyed entity  *)
(* dict and a flat relationship list, stepped one Python statement at a    *)
(* time.  The three extractors are either the module's mocks ("baseline")  *)
(* or replaced by arbitrary collaborators ("any") whose results are drawn  *)
(* from small sets and which may raise.                                    *)
(***************************************************************************)
EXTENDS Naturals, Sequences, FiniteSets

VARIABLES
    extractors,     \* "baseline": the module's mocks; "any": replaced collaborators
    text_chunks,    \* the argument of the running call
    pc,             \* position of the call
    i,              \* records the chunk loop's iterator has yielded so far
    chunk,          \* the TextChunk built from the current record
    unit_iter,      \* what is left of extract_semantic_units(chunk)
    unit,           \* the loop variable of the unit loop
    entity_iter,    \* what is left of extract_entities(unit)
    rel_iter,       \* what is left of extract_relationships(unit)
    units,          \* local list
    entities,       \* local dict, as the sequence of its items in dict order
    relationships,  \* local list
    result,         \* the returned dict, None before and on an exception
    error,          \* the exception that ended the call, None otherwise
    log,            \* history: what the call has done so far, in order
    ref             \* history: one earlier finished call, kept for comparison

vars == <<extractors, text_chunks, pc, i, chunk, unit_iter, unit, entity_iter,
          rel_iter, units, entities, relationships, result, error, log, ref>>

\* ---------------------------------------------------------------- bounds
MaxChunks == 2

None == [py |-> "None"]
TypeError == [exception |-> "TypeError"]
ExtractorError == [exception |-> "ExtractorError"]

\* Records a caller may pass: the two of the example and one of each malformed
\* shape (no source, no content, a third field).
WellFormedRecords ==
    { [content |-> "Hinton invented backprop.", source |-> "doc1.txt"],
      [content |-> "LeCun developed convolutional nets.", source |-> "doc2.txt"] }
MalformedRecords ==
    { [content |-> "Hinton invented backprop."],
      [source |-> "doc2.txt"],
      [content |-> "Hinton invented backprop.", source |-> "doc1.txt", id |-> "7"] }
Records == WellFormedRecords \cup MalformedRecords

SeqsUpTo(S, n) == UNION { [1..k -> S] : k \in 0..n }
Inputs == SeqsUpTo(Records, MaxChunks)

\* With replaced extractors the content of a record no longer decides anything:
\* one well-formed and one malformed record.
RecordsAny ==
    { [content |-> "Hinton invented backprop.", source |-> "doc1.txt"],
      [content |-> "Hinton invented backprop."] }
InputsAny == SeqsUpTo(RecordsAny, MaxChunks)

\* ------------------------------------------------------- Python built-ins
\* Variants of list.append: one that skips a value already in the list, one
\* that puts the new value first.
list_append_unique(l, x) == IF \E j \in 1..Len(l) : l[j] = x THEN l ELSE Append(l, x)
list_insert_front(l, x) == <<x>> \o l

list_append(l, x) == Append(l, x)

HasKey(d, k) == \E j \in 1..Len(d) : d[j].key = k
KeyIndex(d, k) == CHOOSE j \in 1..Len(d) : d[j].key = k

\* Variants of d[k] = v: a list of items that never looks the key up, and a
\* dict that moves an overwritten key to the end.
dict_setitem_no_lookup(d, k, v) == Append(d, [key |-> k, value |-> v])
dict_setitem_move_to_end(d, k, v) ==
    Append(SelectSeq(d, LAMBDA it : it.key # k), [key |-> k, value |-> v])

\* d[k] = v on a dict: a present key keeps its place and gets the new value,
\* an absent key is added at the end.
dict_setitem(d, k, v) ==
    IF HasKey(d, k)
    THEN [d EXCEPT ![KeyIndex(d, k)] = [key |-> k, value |-> v]]
    ELSE Append(d, [key |-> k, value |-> v])

dict_values(d) == [j \in 1..Len(d) |-> d[j].value]

\* ------------------------------------------------------------ the classes
Params == {"content", "source"}
MissingArgs(kwargs) == Params \ DOMAIN kwargs
UnexpectedArgs(kwargs) == DOMAIN kwargs \ Params

\* Variants of the constructor: parameters with defaults, and a constructor
\* that swallows further keyword arguments.
TextChunk_with_defaults(kwargs) ==
    IF UnexpectedArgs(kwargs) # {}
    THEN TypeError
    ELSE [content |-> IF "content" \in DOMAIN kwargs THEN kwargs.content ELSE "",
          source |-> IF "source" \in DOMAIN kwargs THEN kwargs.source ELSE ""]
TextChunk_with_kwargs(kwargs) ==
    IF MissingArgs(kwargs) # {}
    THEN TypeError
    ELSE [content |-> kwargs.content, source |-> kwargs.source]

\* TextChunk(**kwargs): the call binds the record's fields to the two
\* parameters, neither of which has a default.
TextChunk(kwargs) ==
    IF MissingArgs(kwargs) # {} \/ UnexpectedArgs(kwargs) # {}
    THEN TypeError
    ELSE [content |-> kwargs.content, source |-> kwargs.source]

SemanticUnit(text, summary, source) ==
    [text |-> text, summary |-> summary, source |-> source]

Entity(name, is_entry_point) == [name |-> name, is_entry_point |-> is_entry_point]

Relationship(description, source, target) ==
    [description |-> description, source |-> source, target |-> target]

\* ------------------------------------------------------------ extractors
\* Variant: text and source handed over in each other's place.
extract_semantic_units_swapped(c) ==
    << [text |-> c.source, summary |-> "Mock summary", source |-> c.content] >>

extract_semantic_units(c) == << SemanticUnit(c.content, "Mock summary", c.source) >>

\* Variant: the entity named as the relationships' source endpoint is.
extract_entities_endpoint(u) == << [name |-> "MockEntityA", is_entry_point |-> TRUE] >>

extract_entities(u) == << Entity("MockEntity", TRUE) >>

extract_relationships(u) == << Relationship("MockRel", "MockEntityA", "MockEntityB") >>

\* Collaborators that replace the mocks: each call returns one of a few lists
\* (no, one or several items; a name repeated within a list and across calls
\* with another flag) or raises.
AnyUnits(c) ==
    { << >>,
      << SemanticUnit(c.content, "Mock summary", c.source) >>,
      << SemanticUnit("span 1", "first", c.source),
         SemanticUnit("span 2", "second", c.source) >> }

AnyEntities(u) ==
    { << Entity("Hinton", TRUE), Entity("LeCun", TRUE) >>,
      << Entity("Hinton", TRUE), Entity("Hinton", FALSE) >> }

AnyRelationships(u) ==
    { << >>,
      << Relationship("invented", "Hinton", "backprop"),
         Relationship("cites", "LeCun", "Hinton") >> }

UnitsReturned(c) ==
    IF extractors = "baseline" THEN { extract_semantic_units(c) } ELSE AnyUnits(c)
EntitiesReturned(u) ==
    IF extractors = "baseline" THEN { extract_entities(u) } ELSE AnyEntities(u)
RelationshipsReturned(u) ==
    IF extractors = "baseline" THEN { extract_relationships(u) } ELSE AnyRelationships(u)

\* ------------------------------------------------------- decompose_corpus
\* Variant: the list outlives the call (a module-level or default-argument list).
LeftoverUnits == units

InitialUnits == << >>
InitialEntities == << >>
InitialRelationships == << >>

\* Variant: the records are walked from the last to the first.
NextIndexReversed == Len(text_chunks) - i

\* The position in text_chunks of the record the chunk loop yields next.
NextIndex == i + 1

Event(op, val) == [op |-> op, idx |-> IF op = "chunk" THEN NextIndex ELSE i, val |-> val]

Finished == pc \in {"returned", "raised"}

\* others: a call on another input has finished since.
Snapshot == [input |-> text_chunks, result |-> result, error |-> error, others |-> FALSE]

Init ==
    /\ extractors \in {"baseline", "any"}
    /\ text_chunks = << >>
    /\ pc = "idle"
    /\ i = 0
    /\ chunk = None
    /\ unit_iter = << >>
    /\ unit = None
    /\ entity_iter = << >>
    /\ rel_iter = << >>
    /\ units = << >>
    /\ entities = << >>
    /\ relationships = << >>
    /\ result = None
    /\ error = None
    /\ log = << >>
    /\ ref = None

\* decompose_corpus(input) is called, once no call is running.  keep: the call
\* that just finished is the one kept in ref.  Calls in turn are followed under
\* the mocks; replaced collaborators are followed through one call.
Call(input, keep) ==
    /\ pc = "idle" \/ (Finished /\ extractors = "baseline")
    /\ input \in (IF extractors = "baseline" THEN Inputs ELSE InputsAny)
    /\ text_chunks' = input
    /\ units' = InitialUnits
    /\ entities' = InitialEntities
    /\ relationships' = InitialRelationships
    /\ i' = 0
    /\ chunk' = None
    /\ unit' = None
    /\ unit_iter' = << >>
    /\ entity_iter' = << >>
    /\ rel_iter' = << >>
    /\ result' = None
    /\ error' = None
    /\ log' = << >>
    /\ pc' = "for_chunk"
    /\ keep => ref = None /\ Finished
    /\ ref' = IF keep THEN Snapshot
              ELSE IF ref = None THEN None
              ELSE [ref EXCEPT !.others = @ \/ text_chunks # ref.input]
    /\ UNCHANGED extractors

\* for chunk_data in text_chunks: chunk = TextChunk(**chunk_data)
ConstructChunk ==
    /\ pc = "for_chunk"
    /\ i < Len(text_chunks)
    /\ TextChunk(text_chunks[NextIndex]) # TypeError
    /\ chunk' = TextChunk(text_chunks[NextIndex])
    /\ i' = i + 1
    /\ log' = Append(log, Event("chunk", chunk'))
    /\ pc' = "extract_units"
    /\ UNCHANGED <<extractors, text_chunks, unit_iter, unit, entity_iter, rel_iter,
                   units, entities, relationships, result, error, ref>>

\* The constructor raises: nothing catches it, the call ends.
ConstructError ==
    /\ pc = "for_chunk"
    /\ i < Len(text_chunks)
    /\ TextChunk(text_chunks[NextIndex]) = TypeError
    /\ i' = i + 1
    /\ error' = TypeError
    /\ log' = Append(log, [Event("chunk", TypeError) EXCEPT !.op = "error"])
    /\ pc' = "raised"
    /\ UNCHANGED <<extractors, text_chunks, chunk, unit_iter, unit, entity_iter,
                   rel_iter, units, entities, relationships, result, ref>>

\* for unit in extract_semantic_units(chunk): the call
ExtractUnits ==
    /\ pc = "extract_units"
    /\ \E us \in UnitsReturned(chunk) : unit_iter' = us
    /\ pc' = "for_unit"
    /\ UNCHANGED <<extractors, text_chunks, i, chunk, unit, entity_iter, rel_iter,
                   units, entities, relationships, result, error, log, ref>>

\* the unit loop yields a unit: units.append(unit)
AppendUnit ==
    /\ pc = "for_unit"
    /\ unit_iter # << >>
    /\ unit' = Head(unit_iter)
    /\ unit_iter' = Tail(unit_iter)
    /\ units' = list_append(units, Head(unit_iter))
    /\ log' = Append(log, Event("unit", Head(unit_iter)))
    /\ pc' = "extract_entities"
    /\ UNCHANGED <<extractors, text_chunks, i, chunk, entity_iter, rel_iter,
                   entities, relationships, result, error, ref>>

\* the unit loop is exhausted: back to the chunk loop
UnitsDone ==
    /\ pc = "for_unit"
    /\ unit_iter = << >>
    /\ pc' = "for_chunk"
    /\ UNCHANGED <<extractors, text_chunks, i, chunk, unit_iter, unit, entity_iter,
                   rel_iter, units, entities, relationships, result, error, log, ref>>

\* for entity in extract_entities(unit): the call
ExtractEntities ==
    /\ pc = "extract_entities"
    /\ \E es \in EntitiesReturned(unit) : entity_iter' = es
    /\ pc' = "for_entity"
    /\ UNCHANGED <<extractors, text_chunks, i, chunk, unit_iter, unit, rel_iter,
                   units, entities, relationships, result, error, log, ref>>

\* entities[entity.name] = entity
AssignEntity ==
    /\ pc = "for_entity"
    /\ entity_iter # << >>
    /\ entities' = dict_setitem(entities, Head(entity_iter).name, Head(entity_iter))
    /\ entity_iter' = Tail(entity_iter)
    /\ log' = Append(log, Event("entity", Head(entity_iter)))
    /\ UNCHANGED <<extractors, text_chunks, pc, i, chunk, unit_iter, unit, rel_iter,
                   units, relationships, result, error, ref>>

\* the entity loop is exhausted; for rel in extract_relationships(unit): the call
ExtractRelationships ==
    /\ pc = "for_entity"
    /\ entity_iter = << >>
    /\ \E rs \in RelationshipsReturned(unit) :
          /\ rel_iter' = rs
          /\ log' = Append(log, Event("extract_relationships", [list |-> rs]))
    /\ pc' = "for_rel"
    /\ UNCHANGED <<extractors, text_chunks, i, chunk, unit_iter, unit, entity_iter,
                   units, entities, relationships, result, error, ref>>

\* relationships.append(rel)
AppendRelationship ==
    /\ pc = "for_rel"
    /\ rel_iter # << >>
    /\ relationships' = list_append(relationships, Head(rel_iter))
    /\ rel_iter' = Tail(rel_iter)
    /\ log' = Append(log, Event("rel", Head(rel_iter)))
    /\ UNCHANGED <<extractors, text_chunks, pc, i, chunk, unit_iter, unit,
                   entity_iter, units, entities, result, error, ref>>

\* the relationship loop is exhausted: back to the unit loop
RelationshipsDone ==
    /\ pc = "for_rel"
    /\ rel_iter = << >>
    /\ pc' = "for_unit"
    /\ UNCHANGED <<extractors, text_chunks, i, chunk, unit_iter, unit, entity_iter,
                   rel_iter, units, entities, relationships, result, error, log, ref>>

\* the chunk loop is exhausted: return {...}
Return ==
    /\ pc = "for_chunk"
    /\ i = Len(text_chunks)
    /\ result' = [units |-> units,
                  entities |-> dict_values(entities),
                  relationships |-> relationships]
    /\ pc' = "returned"
    /\ UNCHANGED <<extractors, text_chunks, i, chunk, unit_iter, unit, entity_iter,
                   rel_iter, units, entities, relationships, error, log, ref>>

\* A replaced extractor raises instead of returning: nothing catches it.
ExtractorRaises ==
    /\ extractors = "any"
    /\ \/ pc = "extract_units"
       \/ pc = "extract_entities"
       \/ pc = "for_entity" /\ entity_iter = << >>
    /\ error' = ExtractorError
    /\ log' = Append(log, Event("error", ExtractorError))
    /\ pc' = "raised"
    /\ UNCHANGED <<extractors, text_chunks, i, chunk, unit_iter, unit, entity_iter,
                   rel_iter, units, entities, relationships, result, ref>>

Step ==
    \/ ConstructChunk
    \/ ConstructError
    \/ ExtractUnits
    \/ AppendUnit
    \/ UnitsDone
    \/ ExtractEntities
    \/ AssignEntity
    \/ ExtractRelationships
    \/ AppendRelationship
    \/ RelationshipsDone
    \/ Return

Next ==
    \/ \E input \in Inputs, keep \in BOOLEAN : Call(input, keep)
    \/ Step
    \/ ExtractorRaises

Spec == Init /\ [][Next]_vars

\* ------------------------------------------------------------ properties
Baseline == extractors = "baseline"
Returned == pc = "returned"

HasBothFields(r) == "content" \in DOMAIN r /\ "source" \in DOMAIN r
LacksField(r) == ~HasBothFields(r)
HasFurtherField(r) == \E f \in DOMAIN r : f \notin {"content", "source"}
AllWellFormed ==
    \A j \in 1..Len(text_chunks) :
        HasBothFields(text_chunks[j]) /\ ~HasFurtherField(text_chunks[j])

EventsOf(op) == SelectSeq(log, LAMBDA e : e.op = op)

RECURSIVE Concat(_)
Concat(ls) == IF ls = << >> THEN << >> ELSE Head(ls).val.list \o Concat(Tail(ls))

\* C1: under the mock extractors a returned call has, at every position j of
\* its input, a unit whose source is record j's source and whose text is
\* record j's content: the units are the records, in input order, unchanged.
C1_UnitsEchoInput ==
    (Baseline /\ Returned /\ AllWellFormed) =>
        \A j \in 1..Len(text_chunks) :
            /\ j <= Len(result.units)
            /\ result.units[j].source = text_chunks[j].source
            /\ result.units[j].text = text_chunks[j].content

C1_Witness ==
    /\ Baseline /\ Returned
    /\ Len(text_chunks) = 2
    /\ text_chunks[1].source = "doc2.txt"
    /\ text_chunks[2].source = "doc1.txt"
    /\ result.units[1].text = "LeCun developed convolutional nets."
    /\ result.units[2].text = "Hinton invented backprop."

\* C2: under the mock extractors a returned call has exactly as many units as
\* its input has records, also when records are equal.
C2_OneUnitPerChunk ==
    (Baseline /\ Returned) => Len(result.units) = Len(text_chunks)

C2_Witness ==
    /\ Baseline /\ Returned
    /\ Len(text_chunks) = 2
    /\ text_chunks[1] = text_chunks[2]
    /\ Len(result.units) = 2

\* C3: whatever the extractors return, no two items of the entity dict have
\* the same name, in every state of the loop, and no two records of the
\* returned entities list have the same name.
C3_EntitiesUniqueByName ==
    /\ \A a, b \in 1..Len(entities) :
          a # b => /\ entities[a].key # entities[b].key
                   /\ entities[a].value.name # entities[b].value.name
    /\ Returned =>
          \A a, b \in 1..Len(result.entities) :
              a # b => result.entities[a].name # result.entities[b].name

C3_Witness ==
    /\ ~Baseline /\ Returned
    /\ Len(EventsOf("entity")) >= 4
    /\ Len(result.entities) = 2

\* C4: a call whose input holds a record without content or without source,
\* at any position, never returns: it ends in an exception, which under the
\* mock extractors is the constructor's TypeError, and no result exists, also
\* when units were gathered before.
C4_MissingFieldRaises ==
    (\E j \in 1..Len(text_chunks) : LacksField(text_chunks[j])) =>
        /\ ~Returned
        /\ result = None
        /\ pc = "raised" => error \in {TypeError, ExtractorError}
        /\ (pc = "raised" /\ Baseline) => error = TypeError

C4_Witness ==
    /\ Baseline /\ pc = "raised"
    /\ Len(text_chunks) = 2
    /\ HasBothFields(text_chunks[1])
    /\ "source" \notin DOMAIN text_chunks[2]
    /\ Len(units) = 1
    /\ result = None

\* C5: a finished call on the input of an earlier finished call has the same
\* outcome: the same returned dict (units, entities, relationships, in order)
\* or the same exception, whatever calls ran between the two.
C5_SameInputSameOutput ==
    (Baseline /\ ref # None /\ Finished /\ text_chunks = ref.input) =>
        /\ result = ref.result
        /\ error = ref.error

C5_Witness ==
    /\ Baseline /\ ref # None /\ Returned
    /\ text_chunks = ref.input
    /\ ref.others
    /\ Len(text_chunks) = 2
    /\ Len(result.units) = 2
    /\ result = ref.result

\* C6: the relationship list, with what the running relationship loop has
\* still to append, is at every moment the concatenation of the lists that
\* extract_relationships returned, in call order, nothing dropped; so under
\* the mocks a returned call has one MockRel per unit, all equal.
C6_RelationshipsConcatenated ==
    /\ relationships \o rel_iter = Concat(EventsOf("extract_relationships"))
    /\ Returned => result.relationships = Concat(EventsOf("extract_relationships"))
    /\ (Baseline /\ Returned) =>
          /\ Len(result.relationships) = Len(result.units)
          /\ \A j \in 1..Len(result.relationships) :
                result.relationships[j].description = "MockRel"

C6_Witness ==
    /\ Baseline /\ Returned
    /\ Len(result.relationships) = 2
    /\ result.relationships[1] = result.relationships[2]

\* C7: under the mocks a call on well-formed records ends by returning, and
\* when the input is not empty the only entity is MockEntity while every
\* relationship runs from MockEntityA to MockEntityB, neither of which is the
\* name of an entity of the result.
C7_DanglingEndpoints ==
    /\ (Baseline /\ Finished /\ AllWellFormed) => Returned
    /\ (Baseline /\ Returned /\ Len(text_chunks) >= 1) =>
          /\ Len(result.relationships) >= 1
          /\ Len(result.entities) = 1
          /\ result.entities[1].name = "MockEntity"
          /\ \A j \in 1..Len(result.relationships) :
                /\ result.relationships[j].source = "MockEntityA"
                /\ result.relationships[j].target = "MockEntityB"
                /\ \A k \in 1..Len(result.entities) :
                      /\ result.entities[k].name # result.relationships[j].source
                      /\ result.entities[k].name # result.relationships[j].target

C7_Witness ==
    /\ Baseline /\ Returned
    /\ Len(text_chunks) = 1
    /\ Len(result.relationships) = 1
    /\ result.relationships[1].source = "MockEntityA"
    /\ result.entities = << [name |-> "MockEntity", is_entry_point |-> TRUE] >>

\* The entities assigned so far, in the order of assignment.
Assigned == [j \in 1..Len(EventsOf("entity")) |-> EventsOf("entity")[j].val]
FirstAt(a, name) == CHOOSE p \in 1..Len(a) :
    a[p].name = name /\ \A q \in 1..(p - 1) : a[q].name # name
LastAt(a, name) == CHOOSE p \in 1..Len(a) :
    a[p].name = name /\ \A q \in (p + 1)..Len(a) : a[q].name # name

\* C8: whatever the extractors return, the returned entities list holds every
\* assigned name once, ordered by the first assignment of each name, and the
\* record listed for a name is the one assigned last under that name.
C8_LastWriteWinsFirstOrder ==
    Returned =>
        LET a == Assigned
            e == result.entities
        IN  /\ \A p \in 1..Len(a) : \E j \in 1..Len(e) : e[j].name = a[p].name
            /\ \A j \in 1..Len(e) :
                  /\ \E p \in 1..Len(a) : a[p].name = e[j].name
                  /\ e[j] = a[LastAt(a, e[j].name)]
            /\ \A j, k \in 1..Len(e) :
                  j < k => FirstAt(a, e[j].name) < FirstAt(a, e[k].name)

C8_Witness ==
    /\ ~Baseline /\ Returned
    /\ Assigned = << [name |-> "Hinton", is_entry_point |-> TRUE],
                     [name |-> "LeCun", is_entry_point |-> TRUE],
                     [name |-> "Hinton", is_entry_point |-> TRUE],
                     [name |-> "Hinton", is_entry_point |-> FALSE] >>
    /\ result.entities = << [name |-> "Hinton", is_entry_point |-> FALSE],
                            [name |-> "LeCun", is_entry_point |-> TRUE] >>

\* What may come right before an event of the log.
Follows(prev, cur) ==
    /\ prev.op # "error"
    /\ cur.op = "chunk" =>
          cur.idx = prev.idx + 1 /\ prev.op \in {"chunk", "extract_relationships", "rel"}
    /\ cur.op = "unit" =>
          cur.idx = prev.idx /\ prev.op \in {"chunk", "extract_relationships", "rel"}
    /\ cur.op = "entity" => cur.idx = prev.idx /\ prev.op \in {"unit", "entity"}
    /\ cur.op = "extract_relationships" =>
          cur.idx = prev.idx /\ prev.op \in {"unit", "entity"}
    /\ cur.op = "rel" =>
          cur.idx = prev.idx /\ prev.op \in {"extract_relationships", "rel"}
    /\ cur.op = "error" => cur.idx \in {prev.idx, prev.idx + 1}

\* C9: the records are taken up in input order, one at a time: record k is
\* turned into a chunk only after everything of record k-1 is done, within a
\* unit the append comes first, then the entity assignments, then the
\* relationship appends, and after an exception nothing more happens.
C9_InOrderFailFirst ==
    /\ Len(log) >= 1 => log[1].idx = 1 /\ log[1].op \in {"chunk", "error"}
    /\ \A q \in 2..Len(log) : Follows(log[q - 1], log[q])
    /\ \A q \in 1..Len(log) : log[q].op = "chunk" => log[q].val = TextChunk(text_chunks[log[q].idx])
    /\ pc \in {"for_chunk", "extract_units"} =>
          unit_iter = << >> /\ entity_iter = << >> /\ rel_iter = << >>
    /\ pc = "raised" =>
          /\ log # << >> /\ log[Len(log)].op = "error"
          /\ log[Len(log)].idx = i
          /\ result = None
    /\ (Baseline /\ Returned) =>
          /\ Len(log) = 5 * Len(text_chunks)
          /\ \A k \in 1..Len(text_chunks) :
                /\ log[5 * k - 4].op = "chunk"
                /\ log[5 * k - 3].op = "unit"
                /\ log[5 * k - 2].op = "entity"
                /\ log[5 * k].op = "rel"

C9_Witness ==
    /\ ~Baseline /\ pc = "raised"
    /\ error = ExtractorError
    /\ Len(text_chunks) = 2
    /\ i = 1
    /\ Len(units) = 2
    /\ Len(relationships) = 2

\* C10: a call returns only when every record has exactly the fields content
\* and source; a record with a further field ends the call in the
\* constructor's TypeError with no result, as a record without a field does.
C10_ExtraFieldRaises ==
    /\ Returned =>
          \A j \in 1..Len(text_chunks) : DOMAIN text_chunks[j] = {"content", "source"}
    /\ (\E j \in 1..Len(text_chunks) : HasFurtherField(text_chunks[j])) =>
          /\ ~Returned
          /\ result = None
          /\ (pc = "raised" /\ Baseline) => error = TypeError

C10_Witness ==
    /\ Baseline /\ pc = "raised"
    /\ Len(text_chunks) = 2
    /\ DOMAIN text_chunks[1] = {"content", "source"}
    /\ DOMAIN text_chunks[2] = {"content", "source", "id"}
    /\ Len(units) = 1
    /\ error = TypeError
    /\ result = None

====
